---- MODULE Spec2Model ----
(***************************************************************************)
(* A model of the BamQC module of MultiQC                                  *)
(* (src/multiqc/modules/bamqc/bamqc.py): one run of MultiqcModule.__init__ *)
(* over a cohort of log files.                                             *)
(*                                                                         *)
(* Text is modelled as a sequence of tokens.  A token is a punctuation     *)
(* character ("{", "}", the double quote, ":", ",", " ", "_", ".", "-"),   *)
(* a decimal digit, or a word that the program only ever compares or       *)
(* copies as a whole (a key such as "total reads", a library name).        *)
(* Numbers are exact: a mean is a fraction, a standard deviation is kept   *)
(* as the fraction that is its square (the variance), and comparisons with *)
(* mean +/- 2*stdev are decided by integer arithmetic.  Python evaluates   *)
(* the same comparisons in binary floating point.                          *)
(***************************************************************************)
EXTENDS Integers, Sequences, FiniteSets, TLC

VARIABLES
    pc,                  \* position of __init__
    ignore,              \* the sample names the configured filter excludes
    nfiles,              \* number of log files handed to parse_bamqc_log
    order,               \* insertion order of the keys of self.bamqc_data
    bamqc_data,          \* self.bamqc_data: s_name -> record (key -> value)
    sample_name_info,    \* self.sample_name_info: s_name -> (field -> text)
    bamqc_stats_warning, \* self.bamqc_stats_warning: n_property -> BOOLEAN
    used_stats,          \* per property, the locals mean and stdev as find_outliers classified with them
    written,             \* what write_data_file was given (NoDump before)
    stats_data,          \* bamqc_general_stats' stats_data: key -> the record object it refers to
    passfails,           \* the statuses dict built for the intro
    bdata,               \* per plot, the bucket of each sample
    raised               \* the exception that left __init__ ("none" if none)

vars == <<pc, ignore, nfiles, order, bamqc_data, sample_name_info,
          bamqc_stats_warning, used_stats, written, stats_data, passfails,
          bdata, raised>>

----------------------------------------------------------------------------
(* Bounds of the model                                                     *)

MaxSamples == 6      \* log files of a run of the statistics cohorts
MaxParseFiles == 2   \* log files of a run of the parsing cohorts
MaxIdFiles == 2      \* log files of a run of the identity cohorts
MaxDerivedFiles == 2 \* log files of a run of the derived-metric cohorts
MaxCohort == 6       \* log files of a run of the small-cohort runs

----------------------------------------------------------------------------
(* Text helpers                                                            *)

QUOTE == "\""

Digit == <<"0", "1", "2", "3", "4", "5", "6", "7", "8", "9">>

IsDigit(c) == \E d \in 1..10 : Digit[d] = c

DigitVal(c) == (CHOOSE d \in 1..10 : Digit[d] = c) - 1

\* The decimal text of a natural number (how the inputs are written).
RECURSIVE Decimal(_)
Decimal(n) == IF n < 10 THEN <<Digit[n + 1]>>
              ELSE Decimal(n \div 10) \o <<Digit[(n % 10) + 1]>>

\* str.split(sep): the pieces between the occurrences of sep.
\* The index of the first sep of s at or after i, 0 when there is none.
RECURSIVE Find(_, _, _)
Find(s, sep, i) == IF i > Len(s) THEN 0
                   ELSE IF s[i] = sep THEN i
                   ELSE Find(s, sep, i + 1)

RECURSIVE Split(_, _)
SplitAt(s, sep, k) ==
    IF k = 0 THEN <<s>>
    ELSE <<SubSeq(s, 1, k - 1)>> \o Split(SubSeq(s, k + 1, Len(s)), sep)

Split(s, sep) == SplitAt(s, sep, Find(s, sep, 1))

\* str.replace(ch, ""): every occurrence of ch removed.
Remove(s, ch) == SelectSeq(s, LAMBDA c : c # ch)

\* str.strip() as int() and float() apply it: blanks off both ends.
RECURSIVE Strip(_)
Strip(s) == IF s = <<>> THEN s
            ELSE IF Head(s) = " " THEN Strip(Tail(s))
            ELSE IF s[Len(s)] = " " THEN Strip(SubSeq(s, 1, Len(s) - 1))
            ELSE s

RECURSIVE DigitsValue(_)
DigitsValue(s) == IF s = <<>> THEN 0
                  ELSE 10 * DigitsValue(SubSeq(s, 1, Len(s) - 1)) + DigitVal(s[Len(s)])

AllDigits(s) == s # <<>> /\ \A i \in 1..Len(s) : IsDigit(s[i])

ValueError == "ValueError"
IndexError == "IndexError"
KeyError == "KeyError"
UserWarning == "UserWarning"
ZeroDivisionError == "ZeroDivisionError"

\* The result of a conversion: a number, or the ValueError it raises.
Num(n) == [ok |-> TRUE, v |-> n]
Bad == [ok |-> FALSE, v |-> 0]

\* A stripped number text without its sign, and whether it had one.
Negative(t) == t # <<>> /\ Head(t) = "-"
Unsigned(t) == IF Negative(t) THEN Tail(t) ELSE t
Signed(t, n) == IF Negative(t) THEN 0 - n ELSE n

\* int(value): optional blanks, an optional sign, then digits; else ValueError.
IntOf(t) == IF AllDigits(Unsigned(t)) THEN Num(Signed(t, DigitsValue(Unsigned(t))))
            ELSE Bad

ParseInt(value) == IntOf(Strip(value))

\* float(value) for a text that holds a ".": digits "." digits.  The inputs of
\* the model write only zeros after the point, so the value is an integer.
FloatOf(t, parts) ==
    IF /\ Len(parts) = 2
       /\ AllDigits(parts[1] \o parts[2])
       /\ \A i \in 1..Len(parts[2]) : parts[2][i] = "0"
    THEN Num(Signed(t, DigitsValue(parts[1])))
    ELSE Bad

ParseFloat(value) == FloatOf(Strip(value), Split(Unsigned(Strip(value)), "."))

\* lines 123-126: the conversion of a metric's value text.
ConvertNumber(value) ==
    IF \E i \in 1..Len(value) : value[i] = "."
    THEN ParseFloat(value)
    ELSE ParseInt(value)

----------------------------------------------------------------------------
(* parse_bamqc_log                                                         *)

\* property_list of parse_bamqc_log (lines 102-103), in order.
parse_property_list ==
    <<"reads on target", "reads per start point", "total reads", "paired reads",
      "mapped reads", "aligned bases", "soft clip bases", "insert mean", "target size">>

\* property_list of find_outliers (lines 163-164), in order.
outlier_property_list ==
    <<"reads on target", "reads per start point", "total reads", "paired reads",
      "mapped reads", "aligned bases", "soft clip bases", "insert mean">>

Range(s) == {s[i] : i \in 1..Len(s)}

EmptyMap == [k \in {} |-> 0]

\* d[k] = v on a dict.
Put(d, k, v) == [x \in DOMAIN d \cup {k} |-> IF x = k THEN v ELSE d[x]]

\* del d[k] on a dict.
Del(d, k) == [x \in DOMAIN d \ {k} |-> d[x]]

\* lines 108-112: the property name of a fragment, parts being s.split(':').
PropertyOf(parts) == Remove(Remove(parts[1], "{"), QUOTE)

\* The metadata key a fragment's property selects (lines 128-151), and the
\* field of sample_name_info it is stored under.
InfoField(p) == CASE p = <<"library">>  -> "library"
                  [] p = <<"run name">> -> "run name"
                  [] p = <<"barcode">>  -> "index"
                  [] p = <<"group id">> -> "group id"
                  [] p = <<"lane">>     -> "lane"
                  [] OTHER              -> "none"

\* One iteration of the loop of lines 107-151 on fragment s.  st holds the
\* record and the metadata built so far and the exception raised, if any.
\* lines 120-126: the converted number n is stored, or its ValueError raised.
StoreMetric(st, property, n) ==
    IF ~n.ok THEN [st EXCEPT !.err = ValueError]
    ELSE [st EXCEPT !.rec = Put(st.rec, property, n.v)]

\* lines 128-151: the text after the first ':' is stored under the field;
\* the quotes are removed from it, except for the lane.
StoreInfo(st, field, text) ==
    [st EXCEPT !.info = Put(st.info, field,
                            IF field = "lane" THEN text ELSE Remove(text, QUOTE))]

ParseParts(st, parts, property) ==
    IF st.err # "none" THEN st
    ELSE IF Len(property) = 1 /\ property[1] \in Range(parse_property_list)
    THEN IF Len(parts) < 2 THEN [st EXCEPT !.err = IndexError]
         ELSE StoreMetric(st, property[1], ConvertNumber(Remove(parts[2], QUOTE)))
    ELSE IF InfoField(property) # "none"
    THEN IF Len(parts) < 2 THEN [st EXCEPT !.err = IndexError]
         ELSE StoreInfo(st, InfoField(property), parts[2])
    ELSE st

PropertyAndParts(st, parts) == ParseParts(st, parts, PropertyOf(parts))

ParseFragment(st, s) == PropertyAndParts(st, Split(s, ":"))

RECURSIVE ParseFragments(_, _)
ParseFragments(st, frags) ==
    IF frags = <<>> THEN st
    ELSE ParseFragments(ParseFragment(st, Head(frags)), Tail(frags))

\* lines 107-151 on a whole file content.
ParseContent(file_content) ==
    ParseFragments([rec |-> EmptyMap, info |-> EmptyMap, err |-> "none"],
                   Split(file_content, ","))

\* line 38: f['s_name'].replace(".annotated", "").
CleanName(s_name) == Remove(s_name, ".annotated")

----------------------------------------------------------------------------
(* find_outliers                                                           *)

RECURSIVE SumSeq(_)
SumSeq(r) == IF r = <<>> THEN 0 ELSE Head(r) + SumSeq(Tail(r))

RECURSIVE SumSqSeq(_)
SumSqSeq(r) == IF r = <<>> THEN 0 ELSE Head(r) * Head(r) + SumSqSeq(Tail(r))

\* A fraction num/den with den > 0.
Frac(n, d) == [num |-> n, den |-> d]

\* statistics.mean(reads) for a non-empty list: sum / n.
Mean(r) == Frac(SumSeq(r), Len(r))

\* The square of statistics.stdev(reads) for a list of at least two values:
\* the sum of the squared deviations from the mean, divided by n - 1.
\* With sum and sumsq the sum of the values and of their squares, it is
\* (n * sumsq - sum * sum) / (n * (n - 1)).
VarianceOf(n, sum, sumsq) == Frac(n * sumsq - sum * sum, n * (n - 1))

Variance(r) == VarianceOf(Len(r), SumSeq(r), SumSqSeq(r))

\* Above with ">=" for ">": a value on the bound would fail.
Above_NotStrict(x, mean, var) ==
    LET a == x * mean.den - mean.num
    IN  a >= 0 /\ a * a * var.den >= 4 * var.num * mean.den * mean.den

\* Above with one standard deviation for two.
Above_OneStdev(x, mean, var) ==
    LET a == x * mean.den - mean.num
    IN  a > 0 /\ a * a * var.den > var.num * mean.den * mean.den

\* line 182, first disjunct: x > mean + 2 * stdev, var being stdev squared.
\* With a / mean.den = x - mean, that is a > 0 and a^2 / mean.den^2 > 4 * var.
Above(x, mean, var) ==
    LET a == x * mean.den - mean.num
    IN  a > 0 /\ a * a * var.den > 4 * var.num * mean.den * mean.den

\* line 182, second disjunct: x < mean - 2 * stdev.
Below(x, mean, var) ==
    LET a == x * mean.den - mean.num
    IN  a < 0 /\ a * a * var.den > 4 * var.num * mean.den * mean.den

\* lines 182-185.
Classify(x, mean, var) ==
    IF Above(x, mean, var) \/ Below(x, mean, var) THEN "fail" ELSE "pass"

\* line 189: (mean - 2 * stdev) < 0.
LowerBoundNegative(mean, var) ==
    \/ mean.num < 0
    \/ mean.num * mean.num * var.den < 4 * var.num * mean.den * mean.den

\* line 188: property.lower().replace(' ', '_').
NProperty(p) == CASE p = "reads on target"       -> "reads_on_target"
                  [] p = "reads per start point" -> "reads_per_start_point"
                  [] p = "total reads"           -> "total_reads"
                  [] p = "paired reads"          -> "paired_reads"
                  [] p = "mapped reads"          -> "mapped_reads"
                  [] p = "aligned bases"         -> "aligned_bases"
                  [] p = "soft clip bases"       -> "soft_clip_bases"
                  [] p = "insert mean"           -> "insert_mean"

\* lines 167-171 for the samples keys[1..]: the values gathered, the statuses
\* dicts created, and the KeyError of the first sample without the property.
RECURSIVE GatherReads(_, _, _)
GatherReads(st, keys, property) ==
    IF keys = <<>> \/ st.err # "none" THEN st
    ELSE LET s_name == Head(keys)
             rec == st.data[s_name]
         IN  IF property \notin DOMAIN rec
             THEN [st EXCEPT !.err = KeyError]
             ELSE GatherReads(
                    [st EXCEPT !.reads = Append(st.reads, rec[property]),
                               !.data[s_name] =
                                   IF "statuses" \in DOMAIN rec THEN rec
                                   ELSE Put(rec, "statuses", EmptyMap)],
                    Tail(keys), property)

\* lines 173-178: mean and stdev are assigned in turn; the first statistic
\* that cannot be computed raises, is caught, and leaves what was there.
TryMean(st) == IF Len(st.reads) >= 1 THEN Mean(st.reads) ELSE st.mean

TryVariance(st) == IF Len(st.reads) >= 2 THEN Variance(st.reads) ELSE st.var

\* SetStatuses that records a status only for a value that fails.
SetStatuses_FailOnly(data, keys, property, mean, var) ==
    [s \in DOMAIN data |->
        IF s \in Range(keys) /\ Classify(data[s][property], mean, var) = "fail"
        THEN [data[s] EXCEPT !["statuses"] = Put(data[s]["statuses"], property, "fail")]
        ELSE data[s]]

\* lines 180-185: every sample's status for the property.
SetStatuses(data, keys, property, mean, var) ==
    [s \in DOMAIN data |->
        IF s \in Range(keys)
        THEN [data[s] EXCEPT !["statuses"] =
                 Put(data[s]["statuses"], property,
                     Classify(data[s][property], mean, var))]
        ELSE data[s]]

\* lines 191-192: the list is emptied for the next property.
ResetReads(reads) == <<>>

\* One iteration of the loop of line 165 (lines 166-192).
ClassifyAll(g, keys, property, mean, var) ==
    [data    |-> SetStatuses(g.data, keys, property, mean, var),
     reads   |-> ResetReads(g.reads),
     mean    |-> mean,
     var     |-> var,
     warning |-> Put(g.warning, NProperty(property), LowerBoundNegative(mean, var)),
     used    |-> Put(g.used, property, [mean |-> mean, var |-> var]),
     err     |-> "none"]

AfterGather(g, keys, property) ==
    IF g.err # "none" THEN g
    ELSE ClassifyAll(g, keys, property, TryMean(g), TryVariance(g))

OutlierPass(st, keys, property) ==
    IF st.err # "none" THEN st
    ELSE AfterGather(GatherReads(st, keys, property), keys, property)

RECURSIVE OutlierLoop(_, _, _)
OutlierLoop(st, keys, props) ==
    IF props = <<>> THEN st
    ELSE OutlierLoop(OutlierPass(st, keys, Head(props)), keys, Tail(props))

\* find_outliers (lines 159-192) on the cohort data with key order keys.
find_outliers(data, keys, warning) ==
    OutlierLoop([data |-> data, reads |-> <<>>, mean |-> Frac(0, 1),
                 var |-> Frac(0, 1), warning |-> warning, used |-> EmptyMap,
                 err |-> "none"],
                keys, outlier_property_list)

----------------------------------------------------------------------------
(* bamqc_general_stats: the derived metrics                                *)

\* OrOne without its "or 1": a zero divisor stays zero.
OrOne_Dropped(x) == x

\* "x or 1" of lines 215, 226 and 229.
OrOne(x) == IF x = 0 THEN 1 ELSE x

\* lines 206-207: if total_reads == 0: total_reads = 1.
ZeroToOne(total_reads) == IF total_reads = 0 THEN 1 ELSE total_reads

\* Whether the division a / b of Python raises ZeroDivisionError.
DivRaises(b) == b = 0

\* The quotient of two fractions and the product of a fraction by a number,
\* kept as unreduced fractions; a zero divisor is the caller's error.
FracTimes(f, k) == Frac(f.num * k, f.den)
FracOver(f, k) == IF k < 0 THEN Frac(0 - f.num, f.den * (0 - k))
                  ELSE Frac(f.num, f.den * k)

HasKeys(rec, ks) == ks \subseteq DOMAIN rec

\* lines 204-209 for one record: [rec, err].
MapPercent(rec) ==
    IF ~HasKeys(rec, {"mapped reads", "total reads"})
    THEN [rec |-> rec, err |-> KeyError]
    ELSE LET mapped_reads == rec["mapped reads"]
             total_reads == ZeroToOne(rec["total reads"])
         IN  IF DivRaises(total_reads)
             THEN [rec |-> rec, err |-> ZeroDivisionError]
             ELSE [rec |-> Put(rec, "map percent",
                               FracTimes(FracOver(Frac(mapped_reads, 1), total_reads), 100)),
                   err |-> "none"]

\* lines 215-218 for one record.
OnTargetPercent(rec) ==
    IF ~HasKeys(rec, {"mapped reads", "reads on target"})
    THEN [rec |-> rec, err |-> KeyError]
    ELSE LET mapped_reads == OrOne(rec["mapped reads"])
             reads_on_target == rec["reads on target"]
         IN  IF DivRaises(mapped_reads)
             THEN [rec |-> rec, err |-> ZeroDivisionError]
             ELSE [rec |-> Put(rec, "on target percent",
                               FracTimes(FracOver(Frac(reads_on_target, 1), mapped_reads), 100)),
                   err |-> "none"]

\* lines 226-232 for one record.
Coverage(rec) ==
    IF ~HasKeys(rec, {"target size", "aligned bases", "on target percent",
                      "reads per start point"})
    THEN [rec |-> rec, err |-> KeyError]
    ELSE LET target_size == OrOne(rec["target size"])
             aligned_bases == rec["aligned bases"]
             on_target_percent == FracOver(rec["on target percent"], 100)
             reads_per_start_point == OrOne(rec["reads per start point"])
         IN  IF DivRaises(reads_per_start_point) \/ DivRaises(target_size)
             THEN [rec |-> rec, err |-> ZeroDivisionError]
             ELSE LET est_yield == FracOver(FracTimes(on_target_percent, aligned_bases),
                                            reads_per_start_point)
                  IN  [rec |-> Put(rec, "coverage", FracOver(est_yield, target_size)),
                       err |-> "none"]

\* One of the three loops over the cohort (lines 203, 214, 225): the step
\* that computes the field is applied to the records in key order until one
\* raises.
StoreDerived(st, s_name, r) ==
    [data |-> [st.data EXCEPT ![s_name] = r.rec], err |-> r.err]

DerivedStep(field, rec) ==
    CASE field = "map percent"       -> MapPercent(rec)
      [] field = "on target percent" -> OnTargetPercent(rec)
      [] field = "coverage"          -> Coverage(rec)

RECURSIVE DerivedLoop(_, _, _)
DerivedLoop(field, st, keys) ==
    IF keys = <<>> \/ st.err # "none" THEN st
    ELSE DerivedLoop(field,
                     StoreDerived(st, Head(keys), DerivedStep(field, st.data[Head(keys)])),
                     Tail(keys))

\* lines 203-232.
DerivedMetrics(data, keys) ==
    DerivedLoop("coverage",
        DerivedLoop("on target percent",
            DerivedLoop("map percent", [data |-> data, err |-> "none"], keys),
            keys),
        keys)

----------------------------------------------------------------------------
(* bamqc_general_stats: the display names                                  *)

\* Zfill padding on the right instead of the left.
RECURSIVE Zfill_Right(_, _)
Zfill_Right(s, width) ==
    IF Len(s) >= width THEN s ELSE Zfill_Right(s \o <<"0">>, width)

\* str.zfill(width): zeros on the left, after a sign, up to the width.
RECURSIVE Zfill(_, _)
Zfill(s, width) ==
    IF Len(s) >= width THEN s
    ELSE IF s # <<>> /\ Head(s) \in {"-", "+"}
         THEN <<Head(s)>> \o Zfill(Tail(s), width - 1)
         ELSE Zfill(<<"0">> \o s, width)

\* line 241: "L" + str(lane).zfill(3).
LaneToken(lane) == <<"L">> \o Zfill(lane, 3)

\* line 240: run name.split('_')[0].
DateOf(run_name) == Split(run_name, "_")[1]

\* lines 242-245: the new sample name.
SampleName(info) ==
    IF "group id" \in DOMAIN info
    THEN info["library"] \o <<"_">> \o info["group id"] \o <<"_">>
            \o DateOf(info["run name"]) \o <<"_">> \o LaneToken(info["lane"])
    ELSE info["library"] \o <<"_">> \o DateOf(info["run name"]) \o <<"_">>
            \o LaneToken(info["lane"])

\* lines 240-249 for sample s_name.  st.sd is stats_data: each key refers to
\* a record object of bamqc_data, named by the sample it was parsed for;
\* st.data are those objects, which the last two lines write to.
\* lines 248-249: the record that stats_data[sample_name] refers to gets
\* the run name and the index; a missing key raises at its line.
Annotate(st, moved, sample_name, info) ==
    IF sample_name \notin DOMAIN moved
    THEN [st EXCEPT !.sd = moved, !.err = KeyError]
    ELSE IF "index" \notin DOMAIN info
    THEN [sd   |-> moved,
          data |-> [st.data EXCEPT ![moved[sample_name]] =
                       Put(@, "run name", info["run name"])],
          err  |-> KeyError]
    ELSE [sd   |-> moved,
          data |-> [st.data EXCEPT ![moved[sample_name]] =
                       Put(Put(@, "run name", info["run name"]), "index", info["index"])],
          err  |-> "none"]

\* lines 246-247: stats_data[sample_name] = stats_data[s_name], then
\* del stats_data[s_name].
Move(sd, s_name, sample_name) == Del(Put(sd, sample_name, sd[s_name]), s_name)

RekeyAs(st, s_name, info, sample_name) ==
    Annotate(st, Move(st.sd, s_name, sample_name), sample_name, info)

Rekey(st, s_name, info) ==
    IF ~HasKeys(info, {"run name", "lane", "library"})
    THEN [st EXCEPT !.err = KeyError]
    ELSE RekeyAs(st, s_name, info, SampleName(info))

RECURSIVE RekeyLoop(_, _, _)
RekeyLoop(st, keys, infos) ==
    IF keys = <<>> \/ st.err # "none" THEN st
    ELSE RekeyLoop(Rekey(st, Head(keys), infos[Head(keys)]), Tail(keys), infos)

\* lines 237-249: stats_data starts as a shallow copy of bamqc_data.
RekeyAll(data, keys, infos) ==
    RekeyLoop([sd |-> [s \in DOMAIN data |-> s], data |-> data, err |-> "none"],
              keys, infos)

----------------------------------------------------------------------------
(* __init__: the steps of a run                                            *)

\* lines 154-156: the required metrics a record lacks (each one is logged).
MissingMetrics(rec) == Range(parse_property_list) \ DOMAIN rec

\* The sample filter of line 48, as the specification describes it: a pure
\* filter that drops the samples whose names the configuration excludes.
ignore_samples(data, excluded) == [s \in DOMAIN data \ excluded |-> data[s]]

KeepKeys(keys, kept) == SelectSeq(keys, LAMBDA k : k \in kept)

\* lines 36-39, one iteration: the file f (its sample name and its text) is
\* parsed by parse_bamqc_log (lines 95-156).
Parsed(s_name, r) ==
    /\ bamqc_data' = Put(bamqc_data, s_name, r.rec)
    /\ sample_name_info' = Put(sample_name_info, s_name, r.info)
    /\ order' = IF s_name \in DOMAIN bamqc_data THEN order
                ELSE Append(order, s_name)
    /\ raised' = r.err
    /\ pc' = IF r.err = "none" THEN "parse" ELSE "raised"

ParseLog(files) ==
    /\ pc = "parse"
    /\ \E f \in files : Parsed(CleanName(f.s_name), ParseContent(f.content))
    /\ nfiles' = nfiles + 1
    /\ UNCHANGED <<ignore, bamqc_stats_warning, used_stats, written, stats_data,
                   passfails, bdata>>

\* lines 44-45: every file has been parsed; find_outliers runs.
OutliersFound(r) ==
    /\ bamqc_data' = r.data
    /\ bamqc_stats_warning' = r.warning
    /\ used_stats' = r.used
    /\ raised' = r.err
    /\ pc' = IF r.err = "none" THEN "ignore" ELSE "raised"

FindOutliers ==
    /\ pc = "parse"
    /\ OutliersFound(find_outliers(bamqc_data, order, EmptyMap))
    /\ UNCHANGED <<ignore, nfiles, order, sample_name_info, written, stats_data,
                   passfails, bdata>>

\* lines 48-53: the filter, then UserWarning when nothing is left.
Filtered(kept) ==
    /\ bamqc_data' = kept
    /\ order' = KeepKeys(order, DOMAIN kept)
    /\ raised' = IF DOMAIN kept = {} THEN UserWarning ELSE "none"
    /\ pc' = IF DOMAIN kept = {} THEN "raised" ELSE "write"

IgnoreSamples ==
    /\ pc = "ignore"
    /\ Filtered(ignore_samples(bamqc_data, ignore))
    /\ UNCHANGED <<ignore, nfiles, sample_name_info, bamqc_stats_warning,
                   used_stats, written, stats_data, passfails, bdata>>

\* line 56: write_data_file(self.bamqc_data, 'multiqc_bamqc').
WriteDataFile ==
    /\ pc = "write"
    /\ written' = Append(written, bamqc_data)
    /\ pc' = "general_stats"
    /\ UNCHANGED <<ignore, nfiles, order, bamqc_data, sample_name_info,
                   bamqc_stats_warning, used_stats, stats_data, passfails,
                   bdata, raised>>

\* line 63: bamqc_general_stats (lines 194-331).
Rekeyed(k) ==
    /\ bamqc_data' = k.data
    /\ stats_data' = k.sd
    /\ raised' = k.err
    /\ pc' = IF k.err = "none" THEN "statuses" ELSE "raised"

Derived(d) ==
    IF d.err # "none"
    THEN /\ bamqc_data' = d.data
         /\ stats_data' = stats_data
         /\ raised' = d.err
         /\ pc' = "raised"
    ELSE Rekeyed(RekeyAll(d.data, order, sample_name_info))

GeneralStats ==
    /\ pc = "general_stats"
    /\ Derived(DerivedMetrics(bamqc_data, order))
    /\ UNCHANGED <<ignore, nfiles, order, sample_name_info, bamqc_stats_warning,
                   used_stats, written, passfails, bdata>>

\* The keys of the statuses dicts of the cohort.
StatusKeys == UNION {DOMAIN bamqc_data[s]["statuses"] : s \in DOMAIN bamqc_data}

\* lines 66-77: the statuses by section, each with the section's warning.
BuildStatuses ==
    /\ pc = "statuses"
    /\ IF \E p \in StatusKeys : NProperty(p) \notin DOMAIN bamqc_stats_warning
       THEN /\ raised' = KeyError
            /\ pc' = "raised"
            /\ passfails' = passfails
       ELSE /\ passfails' =
                 [section \in {NProperty(p) : p \in StatusKeys} |->
                     [status  |-> LET p == CHOOSE q \in StatusKeys : NProperty(q) = section
                                  IN  [s \in {x \in DOMAIN bamqc_data :
                                                 p \in DOMAIN bamqc_data[x]["statuses"]}
                                         |-> bamqc_data[s]["statuses"][p]],
                      warning |-> bamqc_stats_warning[section]]]
            /\ raised' = "none"
            /\ pc' = "plots"
    /\ UNCHANGED <<ignore, nfiles, order, bamqc_data, sample_name_info,
                   bamqc_stats_warning, used_stats, written, stats_data, bdata>>

\* lines 344-349 and their seven copies: the bucket of a sample in a plot.
Bucket(rec, property) ==
    [cat   |-> IF rec["statuses"][property] = "fail" THEN "fail" ELSE "pass",
     value |-> rec[property]]

\* lines 80-87: the eight plots.
Plots ==
    /\ pc = "plots"
    /\ IF \E s \in DOMAIN bamqc_data, p \in Range(outlier_property_list) :
             p \notin DOMAIN bamqc_data[s]["statuses"] \/ p \notin DOMAIN bamqc_data[s]
       THEN /\ raised' = KeyError
            /\ pc' = "raised"
            /\ bdata' = bdata
       ELSE /\ bdata' = [p \in Range(outlier_property_list) |->
                            [s \in DOMAIN bamqc_data |-> Bucket(bamqc_data[s], p)]]
            /\ raised' = "none"
            /\ pc' = "done"
    /\ UNCHANGED <<ignore, nfiles, order, bamqc_data, sample_name_info,
                   bamqc_stats_warning, used_stats, written, stats_data, passfails>>

\* The steps of __init__ after the parsing loop.
AfterParsing ==
    \/ FindOutliers
    \/ IgnoreSamples
    \/ WriteDataFile
    \/ GeneralStats
    \/ BuildStatuses
    \/ Plots

----------------------------------------------------------------------------
(* The inputs of the model                                                 *)

\* A fragment "key":value and a file content {fragment,fragment,...}.
KV(key, value) == <<QUOTE, key, QUOTE, ":">> \o value

Quoted(text) == <<QUOTE>> \o text \o <<QUOTE>>

RECURSIVE Join(_)
Join(frags) == IF Len(frags) = 0 THEN <<>>
               ELSE IF Len(frags) = 1 THEN frags[1]
               ELSE frags[1] \o <<",">> \o Join(Tail(frags))

Content(frags) ==
    <<"{">> \o Join(frags \o <<KV("workflow", Quoted(<<"BamQC">>))>>) \o <<"}">>

Name(i) == <<"s">> \o Decimal(i)

RunName == <<"200101", "_", "RUN", "_", "X">>

\* The metadata fragments of a well-formed record with the given lane.
MetaFrags(lane) ==
    <<KV("library", Quoted(<<"LIB1">>)), KV("run name", Quoted(RunName)),
      KV("barcode", Quoted(<<"ACGT">>)), KV("lane", lane)>>

\* The nine metric fragments: "reads on target" is v, every other metric w.
MetricFrags(v, w) ==
    [i \in 1..Len(parse_property_list) |->
        KV(parse_property_list[i], Decimal(IF i = 1 THEN v ELSE w))]

\* The statistics cohorts: file i is sample s<i> on lane i, with all its
\* metrics: all 0, or "reads on target" 1, or every other metric 1.
StatValues == {<<0, 0>>, <<1, 0>>, <<0, 1>>}

StatsFiles ==
    IF nfiles >= MaxSamples THEN {}
    ELSE {[s_name  |-> Name(nfiles + 1),
           content |-> Content(MetricFrags(vw[1], vw[2]) \o MetaFrags(Decimal(nfiles + 1)))] :
            vw \in StatValues}

ParseStats == ParseLog(StatsFiles)

\* frags without its i-th fragment, and with its i-th fragment replaced.
Without(frags, i) == SubSeq(frags, 1, i - 1) \o SubSeq(frags, i + 1, Len(frags))
Replaced(frags, i, f) == [frags EXCEPT ![i] = f]

\* The parsing cohorts: file i is sample s<i> on lane i; its record is well
\* formed, or lacks a metric, or has one fragment that is not "key":number.
WellFormed == MetricFrags(1, 1)

ParseRecords ==
    { WellFormed,
      Without(WellFormed, 3),                                   \* no "total reads"
      Without(WellFormed, 9),                                   \* no "target size"
      WellFormed \o << <<QUOTE, "mapped reads", QUOTE>> >>,    \* a key and no ':'
      Replaced(WellFormed, 8, KV("insert mean", Quoted(<<"NA">>))),   \* not a number
      WellFormed \o << <<"truncated">> >>,                     \* no ':', unknown key
      Replaced(WellFormed, 3, <<" ">> \o KV("total reads", <<"5">>)), \* blank before the key
      WellFormed \o <<KV("total reads", <<"2", "0">>)>>,       \* a key twice
      Replaced(WellFormed, 3, KV("total reads", Quoted(<<"2", ".", "0">>))),   \* a float, quoted
      Replaced(WellFormed, 9, <<QUOTE, "target size", QUOTE, " ", ":", "1">>), \* blank after the key
      WellFormed \o << <<" ">> \o KV("group id", Quoted(<<"GRP">>)) >> }      \* blank before a metadata key

ParseFiles ==
    IF nfiles >= MaxParseFiles THEN {}
    ELSE {[s_name  |-> Name(nfiles + 1),
           content |-> Content(r \o MetaFrags(Decimal(nfiles + 1)))] :
            r \in ParseRecords}

ParseMalformed == ParseLog(ParseFiles)

\* The derived-metric cohorts: the four denominators are zero or not.
DerivedRecords ==
    { [i \in 1..9 |-> KV(parse_property_list[i],
                         Decimal(CASE i = 1 -> 3        \* reads on target
                                   [] i = 2 -> rpsp     \* reads per start point
                                   [] i = 3 -> total    \* total reads
                                   [] i = 5 -> mapped   \* mapped reads
                                   [] i = 6 -> 7        \* aligned bases
                                   [] i = 9 -> target   \* target size
                                   [] OTHER -> 1))] :
        rpsp \in {0, 5}, total \in {0, 2}, mapped \in {0, 50}, target \in {0, 4} }

DerivedFiles ==
    IF nfiles >= MaxDerivedFiles THEN {}
    ELSE {[s_name  |-> Name(nfiles + 1),
           content |-> Content(r \o MetaFrags(Decimal(nfiles + 1)))] :
            r \in DerivedRecords}

ParseDerived == ParseLog(DerivedFiles)

\* The identity cohorts: the metadata of a file has a group id or not, lacks
\* a field or not, and two files may carry the same metadata; a file is named
\* s<i>, or s1.annotated, or as the display name of the first metadata below.
Lib == KV("library", Quoted(<<"LIB1">>))
Run == KV("run name", Quoted(RunName))
Bar == KV("barcode", Quoted(<<"ACGT">>))
Grp == KV("group id", Quoted(<<"GRP">>))
Lane(text) == KV("lane", text)

IdMetadata ==
    { <<Lib, Run, Bar, Lane(<<"1">>)>>,
      <<Lib, Run, Bar, Lane(<<"3">>)>>,
      <<Lib, Run, Bar, Grp, Lane(<<"3">>)>>,
      <<Lib, Run, Bar, Lane(<<"1", "2", "3", "4">>)>>,
      <<Lib, Run, Bar, Lane(Quoted(<<"7">>))>>,   \* the lane keeps its quotes
      <<Run, Bar, Lane(<<"1">>)>>,            \* no library
      <<Lib, Bar, Lane(<<"1">>)>>,            \* no run name
      <<Lib, Run, Bar>> }                     \* no lane

LaneOneName == <<"LIB1", "_", "200101", "_", "L", "0", "0", "1">>

IdNames == {Name(nfiles + 1), <<"s", "1", ".annotated">>, LaneOneName}

IdFiles ==
    IF nfiles >= MaxIdFiles THEN {}
    ELSE {[s_name |-> n, content |-> Content(WellFormed \o m)] :
            n \in IdNames, m \in IdMetadata}

ParseIdentity == ParseLog(IdFiles)

\* The small cohorts: file i is sample s<i> on lane i, with all its metrics:
\* "reads on target" is 0, 1 or 5 and every other metric 0, 5 or -1.
NumText(n) == IF n < 0 THEN <<"-">> \o Decimal(0 - n) ELSE Decimal(n)

CohortValues == {<<0, 0>>, <<1, 5>>, <<5, 0 - 1>>}

CohortFrags(v, w) ==
    [i \in 1..Len(parse_property_list) |->
        KV(parse_property_list[i], NumText(IF i = 1 THEN v ELSE w))]

CohortFiles ==
    IF nfiles >= MaxCohort THEN {}
    ELSE {[s_name  |-> Name(nfiles + 1),
           content |-> Content(CohortFrags(vw[1], vw[2]) \o MetaFrags(Decimal(nfiles + 1)))] :
            vw \in CohortValues}

ParseCohort == ParseLog(CohortFiles)

AllNames == {Name(i) : i \in 1..(MaxSamples + 1)} \cup {LaneOneName}

\* The configured filter: nothing excluded, the first sample, or every sample.
IgnoreConfigs == {{}, {Name(1)}, AllNames}

Init ==
    /\ pc = "parse"
    /\ ignore \in IgnoreConfigs
    /\ nfiles = 0
    /\ order = <<>>
    /\ bamqc_data = EmptyMap
    /\ sample_name_info = EmptyMap
    /\ bamqc_stats_warning = EmptyMap
    /\ used_stats = EmptyMap
    /\ written = <<>>
    /\ stats_data = EmptyMap
    /\ passfails = EmptyMap
    /\ bdata = EmptyMap
    /\ raised = "none"

Next ==
    \/ ParseStats
    \/ AfterParsing

Spec == Init /\ [][Next]_vars

\* The same run over the parsing, the derived-metric and the identity cohorts.
NextParse ==
    \/ ParseMalformed
    \/ AfterParsing

SpecParse == Init /\ [][NextParse]_vars

NextDerived ==
    \/ ParseDerived
    \/ AfterParsing

SpecDerived == Init /\ [][NextDerived]_vars

NextIdentity ==
    \/ ParseIdentity
    \/ AfterParsing

SpecIdentity == Init /\ [][NextIdentity]_vars

NextCohort ==
    \/ ParseCohort
    \/ AfterParsing

SpecCohort == Init /\ [][NextCohort]_vars

----------------------------------------------------------------------------
(* Properties of the run                                                   *)

Samples == DOMAIN bamqc_data

\* __init__ has gone past bamqc_general_stats.
PastGeneralStats == pc \in {"statuses", "plots", "done"}

\* Names parsed so far that the configured filter keeps.
RetainedNames == DOMAIN sample_name_info \ ignore

\* C1: a sample whose record lacks a required metric stays in the cohort and
\* the run goes on through outlier detection and the derived metrics: once
\* every file is parsed, no KeyError leaves the run of a cohort that holds a
\* partial record.
MissingSomewhere == \E s \in Samples : MissingMetrics(bamqc_data[s]) # {}

\* C1, as a state predicate: KeyError is not raised while a record is partial.
C1_MissingMetricNotFatal == MissingSomewhere => raised # KeyError

\* C2: parse never raises, whatever the text: no IndexError and no ValueError
\* leaves parse_bamqc_log.
C2_ParseNeverRaises == raised \notin {IndexError, ValueError}

\* C3: in a cohort of at least two samples, right after outlier detection, a
\* sample's status for a metric is "fail" exactly when its value lies
\* strictly more than two Bessel-corrected standard deviations from the
\* cohort mean of that metric, and "pass" otherwise (also when it equals
\* the bound).  With n samples of sum S, D(s) = n * x(s) - S is n times the
\* deviation of s, and the rule is (n - 1) * D(s)^2 > 4 * (sum of the D^2).
RECURSIVE CohortSum(_, _)
CohortSum(keys, p) ==
    IF keys = <<>> THEN 0 ELSE bamqc_data[Head(keys)][p] + CohortSum(Tail(keys), p)

\* D(s) for the metric p of sum S over the cohort.
Deviation(s, p, S) == Len(order) * bamqc_data[s][p] - S

RECURSIVE SquaredDeviations(_, _, _)
SquaredDeviations(keys, p, S) ==
    IF keys = <<>> THEN 0
    ELSE Deviation(Head(keys), p, S) * Deviation(Head(keys), p, S)
            + SquaredDeviations(Tail(keys), p, S)

\* The statuses of metric p follow the rule, S being the sum of the metric
\* and Q the sum of the squared D.
RuleHolds(p, S, Q) ==
    \A s \in Samples :
        bamqc_data[s]["statuses"][p] =
            IF (Len(order) - 1) * Deviation(s, p, S) * Deviation(s, p, S) > 4 * Q
            THEN "fail" ELSE "pass"

RuleHoldsFor(p, S) == RuleHolds(p, S, SquaredDeviations(order, p, S))

\* Sample s lies exactly on a bound of metric p.
OnBound(s, p) ==
    (Len(order) - 1) * Deviation(s, p, CohortSum(order, p))
                     * Deviation(s, p, CohortSum(order, p))
        = 4 * SquaredDeviations(order, p, CohortSum(order, p))

\* C3, as a state predicate: the statuses found by find_outliers follow the
\* strict two-standard-deviation rule, metric by metric.
C3_OutlierRule ==
    (pc = "ignore" /\ Len(order) >= 2) =>
        \A p \in Range(outlier_property_list) : RuleHoldsFor(p, CohortSum(order, p))

C3_Witness ==
    /\ pc = "ignore"
    /\ Len(order) >= 2
    /\ \E s \in Samples : \E p, q \in Range(outlier_property_list) :
          /\ bamqc_data[s]["statuses"][p] = "fail"
          /\ bamqc_data[s]["statuses"][q] = "pass"
          /\ OnBound(s, q)

\* C4: with fewer than two samples, outlier detection classifies every
\* metric with mean = 0 and stdev = 0: the statistics it used are both 0 and
\* a value passes exactly when it is 0.
C4_ZeroStatistics ==
    (pc = "ignore" /\ Len(order) < 2) =>
        \A p \in Range(outlier_property_list) :
            /\ p \in DOMAIN used_stats
            /\ used_stats[p].mean.num = 0
            /\ used_stats[p].var.num = 0
            /\ \A s \in Samples :
                  bamqc_data[s]["statuses"][p] =
                      IF bamqc_data[s][p] # 0 THEN "fail" ELSE "pass"

\* C5: after identity resolution the identity-keyed table holds one entry
\* per sample of the cohort, each referring to that sample's own record.
C5_RekeyKeepsEverySample ==
    PastGeneralStats =>
        /\ Cardinality(DOMAIN stats_data) = Cardinality(Samples)
        /\ \A s \in Samples : \E k \in DOMAIN stats_data : stats_data[k] = s

\* C6: a sample without library, run name or lane fails alone: the run does
\* not abort with the KeyError of its missing field.
MetadataMissing ==
    \E s \in Samples : ~HasKeys(sample_name_info[s], {"library", "run name", "lane"})

\* C6, as a state predicate: no KeyError while a sample lacks such a field.
C6_MissingMetadataSampleScoped == MetadataMissing => raised # KeyError

\* C7: the dump of a run holds, for every sample, its statuses and its
\* derived fields next to its parsed metrics.
C7_DumpHoldsDerived ==
    \A i \in 1..Len(written) : \A s \in DOMAIN written[i] :
        {"statuses", "map percent", "on target percent", "coverage"}
            \subseteq DOMAIN written[i][s]

\* C8: for records with the required metrics the derived metrics never
\* divide by zero and never raise; each of the four denominators is 1 when
\* it is 0 and itself otherwise, so that
\*   map percent       = mapped reads * 100 / total reads',
\*   on target percent = reads on target * 100 / mapped reads',
\*   coverage          = aligned bases * reads on target
\*                         / (mapped reads' * reads per start point' * target size'),
\* and mapped reads = 50 with total reads = 0 gives map percent = 5000.
Effective(x) == IF x # 0 THEN x ELSE 1

\* The fraction f equals n / d.
Equals(f, n, d) == f.num * d = n * f.den

DerivedAsSpecified(r) ==
    /\ Equals(r["map percent"], r["mapped reads"] * 100, Effective(r["total reads"]))
    /\ Equals(r["on target percent"], r["reads on target"] * 100,
              Effective(r["mapped reads"]))
    /\ Equals(r["coverage"], r["aligned bases"] * r["reads on target"],
              Effective(r["mapped reads"]) * Effective(r["reads per start point"])
                  * Effective(r["target size"]))
    /\ (r["mapped reads"] = 50 /\ r["total reads"] = 0) =>
           Equals(r["map percent"], 5000, 1)

\* C8, as a state predicate: in a cohort of complete records nothing but
\* the UserWarning of an empty cohort is raised, and past
\* bamqc_general_stats every record holds the specified derived values.
C8_ZeroDenominators ==
    (\A s \in Samples : MissingMetrics(bamqc_data[s]) = {}) =>
        /\ raised \in {"none", UserWarning}
        /\ PastGeneralStats => \A s \in Samples : DerivedAsSpecified(bamqc_data[s])

C8_Witness ==
    /\ pc = "done"
    /\ \E s \in Samples :
          /\ bamqc_data[s]["mapped reads"] = 50
          /\ bamqc_data[s]["total reads"] = 0
          /\ bamqc_data[s]["reads per start point"] = 0
          /\ bamqc_data[s]["target size"] = 0
          /\ bamqc_data[s]["map percent"] = Frac(5000, 1)
    /\ \E s \in Samples :
          /\ bamqc_data[s]["mapped reads"] = 0
          /\ bamqc_data[s]["total reads"] = 2
          /\ bamqc_data[s]["on target percent"] = Frac(300, 1)

\* C9: the run ends with UserWarning exactly when no sample is left after
\* the filter, nothing else is raised on the way to it, and such a run
\* writes no dump.
RunEnded == pc \in {"raised", "done"}

\* C9, as a state predicate on the states in which the run has ended.
C9_FatalExactlyWhenEmpty ==
    RunEnded =>
        /\ (raised = UserWarning) <=> (RetainedNames = {})
        /\ RetainedNames = {} => written = <<>>

\* C10: every key of the identity-keyed table is the display identity of a
\* sample of the cohort, and the last sample re-keyed is found under its
\* own: library, "_", the group id and "_" when there is one, the run name
\* up to its first "_", "_", "L" and the lane padded with zeros on the left
\* to three characters.  LIB1, 200101_RUN_X and lane 3 give LIB1_200101_L003,
\* and LIB1_GRP_200101_L003 with the group id GRP.
Zeros(n) == [i \in 1..n |-> "0"]

PaddedLane(lane) == IF Len(lane) < 3 THEN Zeros(3 - Len(lane)) \o lane ELSE lane

RunDate(run_name) ==
    IF \E i \in 1..Len(run_name) : run_name[i] = "_"
    THEN SubSeq(run_name, 1, (CHOOSE i \in 1..Len(run_name) :
                                 /\ run_name[i] = "_"
                                 /\ \A j \in 1..(i - 1) : run_name[j] # "_") - 1)
    ELSE run_name

DisplayIdentity(info) ==
    info["library"] \o <<"_">>
        \o (IF "group id" \in DOMAIN info THEN info["group id"] \o <<"_">> ELSE <<>>)
        \o RunDate(info["run name"]) \o <<"_", "L">> \o PaddedLane(info["lane"])

ExampleInfo == [library |-> <<"LIB1">>, lane |-> <<"3">>, index |-> <<"ACGT">>]
                   @@ ("run name" :> <<"200101", "_", "RUN", "_", "X">>)

ExampleIdentity == <<"LIB1", "_", "200101", "_", "L", "0", "0", "3">>

ExampleGroupIdentity == <<"LIB1", "_", "GRP", "_", "200101", "_", "L", "0", "0", "3">>

\* C10, as a state predicate on the table left by bamqc_general_stats.
C10_DisplayIdentity ==
    PastGeneralStats =>
        /\ \A k \in DOMAIN stats_data :
              \E s \in Samples : k = DisplayIdentity(sample_name_info[s])
        /\ DisplayIdentity(sample_name_info[order[Len(order)]]) \in DOMAIN stats_data
        /\ \A s \in Samples :
              /\ sample_name_info[s] = ExampleInfo
                    => ExampleIdentity \in DOMAIN stats_data
              /\ sample_name_info[s] = ExampleInfo @@ ("group id" :> <<"GRP">>)
                    => ExampleGroupIdentity \in DOMAIN stats_data

C10_Witness ==
    /\ pc = "done"
    /\ \E s, t \in Samples :
          /\ sample_name_info[s] = ExampleInfo
          /\ sample_name_info[t] = ExampleInfo @@ ("group id" :> <<"GRP">>)
    /\ DOMAIN stats_data = {ExampleIdentity, ExampleGroupIdentity}

\* C11: parse recognizes a key after trimming the whitespace around it: a
\* file whose fragments have blanks before or after their keys is parsed into
\* the same record, the same metadata and the same outcome as that file with
\* those blanks removed.
\* The fragment s with the blanks around its key (the text before its first
\* ":") removed.
TrimKeyAt(s, k) ==
    IF k = 0 THEN Strip(s)
    ELSE Strip(SubSeq(s, 1, k - 1)) \o SubSeq(s, k, Len(s))

TrimKey(s) == TrimKeyAt(s, Find(s, ":", 1))

TrimKeys(file_content) ==
    Join([i \in 1..Len(Split(file_content, ",")) |-> TrimKey(Split(file_content, ",")[i])])

\* The step stores what parse_bamqc_log makes of the content r was parsed from.
StoredAs(s_name, r) ==
    /\ bamqc_data' = Put(bamqc_data, s_name, r.rec)
    /\ sample_name_info' = Put(sample_name_info, s_name, r.info)
    /\ raised' = r.err

\* C11, as a property of the steps: whenever a step parses a file of the
\* parsing cohorts, it stores what it would store for the file without the
\* blanks around its keys.
C11_KeyWhitespaceTrimmed ==
    [][(pc = "parse" /\ nfiles' = nfiles + 1) =>
          \A f \in ParseFiles :
              StoredAs(CleanName(f.s_name), ParseContent(f.content)) =>
                  StoredAs(CleanName(f.s_name), ParseContent(TrimKeys(f.content)))]_vars

\* C12: the filter is applied before the cohort statistics: once the filter
\* has run, the statuses and the warning flags of the run are those that
\* outlier detection gives for the retained samples alone.
\* The records of the cohort as they were parsed, without their statuses.
WithoutStatuses(data) == [s \in DOMAIN data |-> Del(data[s], "statuses")]

\* The run holds the statuses and the warnings of the outlier detection r.
StatisticsAre(r) ==
    /\ r.err = "none"
    /\ bamqc_data = r.data
    /\ bamqc_stats_warning = r.warning

\* C12, as a state predicate on the state the filter leaves.
C12_StatisticsOfRetained ==
    pc = "write" =>
        StatisticsAre(find_outliers(WithoutStatuses(bamqc_data), order, EmptyMap))

\* C13: once outlier detection has finished, every sample of the cohort has
\* exactly one status, pass or fail, for each metric of the nine-metric set
\* for which it has a numeric value, target size included.
OutliersDone == pc \in {"ignore", "write", "general_stats", "statuses", "plots", "done"}

StatusesOf(s) == bamqc_data[s]["statuses"]

HasFail(s) ==
    /\ "statuses" \in DOMAIN bamqc_data[s]
    /\ \E p \in DOMAIN StatusesOf(s) : StatusesOf(s)[p] = "fail"

\* C14, as a state predicate: right after find_outliers on 2 to 5 samples
\* every status is 'pass', and no state holds a 'fail' unless 6 files or
\* more were parsed.
C14_SmallCohortsPass ==
    /\ (pc = "ignore" /\ nfiles \in 2..5) =>
           \A s \in Samples : \A p \in Range(outlier_property_list) :
               StatusesOf(s)[p] = "pass"
    /\ \A s \in Samples : HasFail(s) => nfiles >= 6

\* Five samples, four with "reads on target" 0 and one with 5, the others
\* with metrics of both signs: the farthest a value of five can lie.
C14_Witness ==
    /\ pc = "ignore"
    /\ nfiles = 5
    /\ \E s \in Samples :
          /\ bamqc_data[s]["reads on target"] = 5
          /\ bamqc_data[s]["total reads"] = 0 - 1
          /\ \A t \in Samples \ {s} :
                /\ bamqc_data[t]["reads on target"] = 0
                /\ bamqc_data[t]["total reads"] = 0
    /\ \A s \in Samples : \A p \in Range(outlier_property_list) :
          StatusesOf(s)[p] = "pass"

====
